---- MODULE Spec2Model ----
(***************************************************************************)
(* A model of the RAG document question-answering application:             *)
(*   - src/vector_db.py     QdrantStorage (collection, upsert, search)     *)
(*   - src/data_loader.py   load_chunk_pdf, embed_texts                    *)
(*   - src/main.py          rag_inngest_pdf and rag_query_pdf, two Inngest *)
(*                          functions made of memoized steps               *)
(*   - src/streamlit_app.py the upload and question page, and              *)
(*                          wait_for_run_output                            *)
(* Strings that the code takes apart or puts together (source ids, point   *)
(* ids, file ids, model answers) are sequences of one-character strings.   *)
(***************************************************************************)
EXTENDS Integers, Sequences, FiniteSets, TLC

VARIABLES collections, points, runs, crashes, call, ui

vars == <<collections, points, runs, crashes, call, ui>>

(***************************************************************************)
(* Bounds of the model.                                                    *)
(***************************************************************************)
MaxChunks == 2
MaxCrashes == 1
MaxArgs == 2
MaxTopK == 2
MaxSentences == 25
MaxPages == 2
MaxTimeout == 2
MaxReruns == 3

(***************************************************************************)
(* Program constants.                                                      *)
(***************************************************************************)
DefaultTopK == 5
DefaultDim == 768
DefaultCollection == "docs"
chunk_size == 1000
chunk_overlap == 200

(***************************************************************************)
(* Small input sets.                                                       *)
(***************************************************************************)
PathA == <<"a">>
SourceB == <<"a", ":", "0">>
Paths == {PathA}
SourceIds == {SourceB}
Sources == Paths \cup SourceIds
Questions == {"q"}
TopKs == {-1, 0, 1, 2}
LLMResponses == {<<" ", "o", "k", " ">>, <<" ">>}

(***************************************************************************)
(* Python helpers.                                                         *)
(***************************************************************************)
Min(a, b) == IF a <= b THEN a ELSE b

\* dict.get(key, default)
Get(d, k, default) == IF k \in DOMAIN d THEN d[k] ELSE default

Digits == <<"0", "1", "2", "3", "4", "5", "6", "7", "8", "9">>

\* str(i) of a non-negative int: its decimal digits
RECURSIVE Str(_)
Str(i) == IF i < 10 THEN <<Digits[i + 1]>>
          ELSE Str(i \div 10) \o <<Digits[(i % 10) + 1]>>

\* f"{source_id}:{i}"
ChunkName(source_id, i) == source_id \o <<":">> \o Str(i)

\* uuid.uuid5(NAMESPACE_URL, name): a fixed hash of (namespace, name); the
\* hash is taken to be collision-free on the names of the model.
Uuid5(name) == <<"uuid5", "NAMESPACE_URL", name>>

\* the mutated id: the source id is left out of the hashed name
ChunkIdIndexOnly(source_id, i) == Uuid5(<<":">> \o Str(i))

\* str(uuid.uuid5(uuid.NAMESPACE_URL, f"{source_id}:{i}")), i 0-based
ChunkId(source_id, i) == Uuid5(ChunkName(source_id, i))

\* Settings.embed_model: a fixed embedding of each text
Embedding(t) == CASE t = "x" -> 1
                  [] t = "y" -> 2
                  [] OTHER -> 3

\* embed_texts(texts): one vector per text, same order
embed_texts(texts) == [i \in 1..Len(texts) |-> Embedding(texts[i])]

(***************************************************************************)
(* QdrantStorage (src/vector_db.py).  A collection's points are a function *)
(* from point id to [vector, payload]; a payload is a dict, a function     *)
(* from its keys to their values.                                          *)
(***************************************************************************)
Payload(source_id, text) == [source |-> source_id, text |-> text]

\* the set of sequences over S of length 0..n
SeqsUpTo(S, n) == UNION {[1..k -> S] : k \in 0..n}

\* the orders in which a set can be listed
Orderings(S) == {s \in [1..Cardinality(S) -> S] :
                    \A i, j \in DOMAIN s : i # j => s[i] # s[j]}

\* upsert, line 29: ids[i], vectors[i], payloads[i] for i in range(len(ids))
\* raises IndexError when vectors or payloads is shorter than ids
UpsertRaises(ids, vectors, payloads) ==
    Len(vectors) < Len(ids) \/ Len(payloads) < Len(ids)

\* upsert, line 29: the PointStructs built, one per id
PointStructs(ids, vectors, payloads) ==
    [i \in 1..Len(ids) |->
        [id |-> ids[i], vector |-> vectors[i], payload |-> payloads[i]]]

\* the mutated store: the points of the call replace the whole collection
ClientUpsertReplacesAll(pts, structs) ==
    [id \in {structs[i].id : i \in DOMAIN structs} |->
        LET i == CHOOSE j \in DOMAIN structs : structs[j].id = id
        IN [vector |-> structs[i].vector, payload |-> structs[i].payload]]

\* the mutated store: a point whose id is taken is kept, and the new point
\* is added beside it (an append, not a replace)
ClientUpsertAppends(pts, structs) ==
    LET fresh(i) == IF structs[i].id \in DOMAIN pts
                    THEN <<"dup", structs[i].id>> ELSE structs[i].id
    IN [id \in DOMAIN pts \cup {fresh(i) : i \in DOMAIN structs} |->
           IF \E i \in DOMAIN structs : fresh(i) = id
           THEN LET i == CHOOSE j \in DOMAIN structs : fresh(j) = id
                IN [vector |-> structs[i].vector, payload |-> structs[i].payload]
           ELSE pts[id]]

\* client.upsert(collection, points): replace-or-insert of each point by id,
\* in order (the last point of an id wins)
ClientUpsert(pts, structs) ==
    LET newIds == {structs[i].id : i \in DOMAIN structs}
        last(id) == CHOOSE i \in DOMAIN structs :
                        /\ structs[i].id = id
                        /\ \A j \in DOMAIN structs : structs[j].id = id => j <= i
    IN [id \in DOMAIN pts \cup newIds |->
           IF id \in newIds
           THEN [vector |-> structs[last(id)].vector,
                 payload |-> structs[last(id)].payload]
           ELSE pts[id]]

\* QdrantStorage.upsert, lines 28-30, of at least one id: its outcomes, each
\* an error ("" when it returns) and the points left in the collection
StorageUpsert(pts, ids, vectors, payloads) ==
    IF UpsertRaises(ids, vectors, payloads)
    THEN {[error |-> "IndexError", points |-> pts]}
    ELSE {[error |-> "", points |->
              ClientUpsert(pts, PointStructs(ids, vectors, payloads))]}

\* client.query_points(collection, query, limit).points for limit >= 1: the
\* min(limit, size) best points; the store's ranking is opaque, so any order
QueryPoints(pts, limit) ==
    {s \in [1..Min(limit, Cardinality(DOMAIN pts)) -> DOMAIN pts] :
        \A i, j \in DOMAIN s : i # j => s[i] # s[j]}

\* search, lines 47-48: payload.get("text", "") of a result
ResultText(pts, id) == Get(pts[id].payload, "text", "")

\* search, lines 47-49: payload.get("source", "") of a result
ResultSource(pts, id) == Get(pts[id].payload, "source", <<>>)

\* the mutated loop: the source is added whether or not the text is empty
SearchSourcesAll(pts, results) ==
    {ResultSource(pts, results[i]) : i \in DOMAIN results}

\* search, lines 43-52: the texts of the results that have one, in order
SearchContexts(pts, results) ==
    LET kept == SelectSeq(results, LAMBDA id : ResultText(pts, id) # "")
    IN [i \in DOMAIN kept |-> ResultText(pts, kept[i])]

\* search, lines 44-52: the sources of the results that have a text
SearchSources(pts, results) ==
    {ResultSource(pts, results[i]) :
        i \in {j \in DOMAIN results : ResultText(pts, results[j]) # ""}}

\* search, line 54: {"contexts": contexts, "sources": list(sources)}; the
\* order of list(set) is not defined
SearchReturns(pts, results) ==
    {[contexts |-> SearchContexts(pts, results), sources |-> srcs] :
        srcs \in Orderings(SearchSources(pts, results))}

(***************************************************************************)
(* Pipeline runs.  An Inngest function is invoked again and again for the  *)
(* same run: ctx.step.run(name, fn) returns the recorded output of a step  *)
(* that has one, and otherwise runs fn, records its output and ends the    *)
(* invocation.  A run's record holds the event, the recorded step outputs  *)
(* (memo), the position inside the step body that is executing (pc, "idle" *)
(* between invocations) and what the run has done so far.                  *)
(***************************************************************************)
LoadStep == "load-and-chunk"
UpsertStep == "embed-and-upsert"
SearchStep == "embed-and-search"
GenerateStep == "llm-generate"

\* the chunk sequences a PDF may hold: up to MaxChunks chunks, whose texts
\* alternate, starting with either
DocChunks(v, n) == [i \in 1..n |-> IF (i + v) % 2 = 0 THEN "x" ELSE "y"]
Docs == {DocChunks(v, n) : v \in {0, 1}, n \in 0..MaxChunks}

\* event.data of the rag/ingest_pdf events sent
IngestEvents == [pdf_path : Paths, source_id : SourceIds]
                    \cup [pdf_path : Paths] \cup [source_id : SourceIds]

\* event.data of the rag/query_pdf_ai events sent
QueryEvents == [question : Questions, top_k : TopKs]
                    \cup [question : Questions] \cup [top_k : {1}]

NewRun(kind, data) ==
    [kind |-> kind, data |-> data, status |-> "running",
     error |-> "", started |-> {}, memo |-> <<>>, pc |-> "idle",
     vecs |-> <<>>, embedCalls |-> 0, upsertCalls |-> 0, wrote |-> <<>>,
     searchK |-> <<>>, prompt |-> <<>>, result |-> <<>>]

Terminal(r) == runs[r].status \in {"completed", "failed"}

\* the mutated executor: only the first step of a function is memoized
StepRecordedFirstOnly(r, name) ==
    name \in DOMAIN runs[r].memo /\ name \in {LoadStep, SearchStep}

\* ctx.step.run: does the run hold a recorded output for the step
StepRecorded(r, name) == name \in DOMAIN runs[r].memo

\* a step body raised, and the executor gave the run up
Failed(run, error) == [run EXCEPT !.status = "failed", !.error = error,
                                  !.pc = "idle", !.vecs = <<>>]

\* a step body returned, and its output is recorded
Recorded(run, name, output) ==
    [run EXCEPT !.memo = (name :> output) @@ @, !.pc = "idle", !.vecs = <<>>]

\* an event arrives and starts a run of the function it triggers.  Runs do
\* not overlap here: the run before has ended, and its record is dropped.
Trigger ==
    /\ \A q \in DOMAIN runs : Terminal(q)
    /\ \E kind \in {"ingest", "query"} :
         \E data \in IF kind = "ingest" THEN IngestEvents ELSE QueryEvents :
            runs' = <<NewRun(kind, data)>>
    /\ UNCHANGED <<collections, points, crashes, call, ui>>

\* _load, lines 52-56, run by ctx.step.run("load-and-chunk"), line 73
IngestLoad(r) ==
    /\ runs[r].kind = "ingest" /\ runs[r].status = "running"
    /\ runs[r].pc = "idle"
    /\ ~StepRecorded(r, LoadStep)
    /\ LET run == [runs[r] EXCEPT !.started = @ \cup {LoadStep}]
       IN IF "pdf_path" \notin DOMAIN run.data
          THEN runs' = [runs EXCEPT ![r] = Failed(run, "KeyError")]
          ELSE \/ \E chunks \in Docs :
                    runs' = [runs EXCEPT ![r] = Recorded(run, LoadStep,
                        [chunks |-> chunks,
                         source_id |-> Get(run.data, "source_id",
                                           run.data.pdf_path)])]
               \/ runs' = [runs EXCEPT ![r] = Failed(run, "DependencyFailure")]
    /\ UNCHANGED <<collections, points, crashes, call, ui>>

\* the mutated check: an empty chunk list is not noticed
NoChunksNever(chunks) == FALSE

\* _upsert, line 62: if not chunks
NoChunks(chunks) == chunks = <<>>

\* the mutated function: embed-and-upsert does not wait for the output of
\* load-and-chunk, and takes the chunks not loaded yet to be none
IngestEmbedUnordered(r) ==
    /\ runs[r].kind = "ingest" /\ runs[r].status = "running"
    /\ runs[r].pc = "idle"
    /\ ~StepRecorded(r, UpsertStep)
    /\ LET run == [runs[r] EXCEPT !.started = @ \cup {UpsertStep}]
           chunks == Get(run.memo, LoadStep, [chunks |-> <<>>]).chunks
       IN IF NoChunks(chunks)
          THEN runs' = [runs EXCEPT ![r] =
                          Recorded(run, UpsertStep, [inngested |-> 0])]
          ELSE runs' = [runs EXCEPT ![r] =
                          [run EXCEPT !.embedCalls = @ + 1,
                                      !.vecs = embed_texts(chunks),
                                      !.pc = "embedded"]]
    /\ UNCHANGED <<collections, points, crashes, call, ui>>

\* _upsert, lines 59-66, run by ctx.step.run("embed-and-upsert"), line 74:
\* no chunks, or the embedding call
IngestEmbed(r) ==
    /\ runs[r].kind = "ingest" /\ runs[r].status = "running"
    /\ runs[r].pc = "idle"
    /\ StepRecorded(r, LoadStep) /\ ~StepRecorded(r, UpsertStep)
    /\ LET run == [runs[r] EXCEPT !.started = @ \cup {UpsertStep}]
           chunks == run.memo[LoadStep].chunks
       IN IF NoChunks(chunks)
          THEN runs' = [runs EXCEPT ![r] =
                          Recorded(run, UpsertStep, [inngested |-> 0])]
          ELSE runs' = [runs EXCEPT ![r] =
                          [run EXCEPT !.embedCalls = @ + 1,
                                      !.vecs = embed_texts(chunks),
                                      !.pc = "embedded"]]
    /\ UNCHANGED <<collections, points, crashes, call, ui>>

\* QdrantStorage.__init__, line 22: client.collection_exists
StorageExists(r) ==
    /\ runs[r].status = "running" /\ runs[r].pc = "embedded"
    /\ runs' = [runs EXCEPT ![r].pc =
                  IF DefaultCollection \in DOMAIN collections
                  THEN "constructed" ELSE "creating"]
    /\ UNCHANGED <<collections, points, crashes, call, ui>>

\* QdrantStorage.__init__, lines 23-26: client.create_collection, which the
\* store refuses when the collection exists by now; the executor then runs
\* the step body again or gives the run up
StorageCreate(r) ==
    /\ runs[r].status = "running" /\ runs[r].pc = "creating"
    /\ IF DefaultCollection \in DOMAIN collections
       THEN /\ UNCHANGED collections
            /\ \/ /\ runs' = [runs EXCEPT ![r] = Failed(@, "CollectionExists")]
                  /\ UNCHANGED crashes
               \/ /\ crashes < MaxCrashes
                  /\ crashes' = crashes + 1
                  /\ runs' = [runs EXCEPT ![r].error = "CollectionExists",
                                          ![r].pc = "idle", ![r].vecs = <<>>]
       ELSE /\ collections' = (DefaultCollection :> DefaultDim) @@ collections
            /\ runs' = [runs EXCEPT ![r].pc = "constructed"]
            /\ UNCHANGED crashes
    /\ UNCHANGED <<points, call, ui>>

\* the mutated step: the reported count is one less than the chunks written
UpsertCountOffByOne(chunks) == Len(chunks) - 1

\* _upsert, line 71: RAGUpsertResult(inngested=len(chunks))
UpsertCount(chunks) == Len(chunks)

\* _upsert, lines 67-71: ids, payloads, QdrantStorage().upsert, the result.
\* The executor may lose the output of a body that has run (a crash before
\* the output is recorded); the body then runs again.
IngestUpsert(r) ==
    /\ runs[r].kind = "ingest" /\ runs[r].status = "running"
    /\ runs[r].pc = "constructed"
    /\ LET run == runs[r]
           chunks == run.memo[LoadStep].chunks
           source_id == run.memo[LoadStep].source_id
           ids == [i \in 1..Len(chunks) |-> ChunkId(source_id, i - 1)]
           payloads == [i \in 1..Len(chunks) |-> Payload(source_id, chunks[i])]
           called == [run EXCEPT !.upsertCalls = @ + 1]
       IN \E out \in StorageUpsert(points, ids, run.vecs, payloads) :
            /\ points' = out.points
            /\ IF out.error # ""
               THEN /\ runs' = [runs EXCEPT ![r] = Failed(called, out.error)]
                    /\ UNCHANGED crashes
               ELSE LET done == [called EXCEPT !.wrote =
                                   [id \in {ids[i] : i \in DOMAIN ids} |->
                                       out.points[id]]]
                    IN \/ /\ runs' = [runs EXCEPT ![r] = Recorded(done,
                                 UpsertStep, [inngested |-> UpsertCount(chunks)])]
                          /\ UNCHANGED crashes
                       \/ /\ crashes < MaxCrashes
                          /\ crashes' = crashes + 1
                          /\ runs' = [runs EXCEPT ![r] =
                                 [done EXCEPT !.pc = "idle", !.vecs = <<>>]]
    /\ UNCHANGED <<collections, call, ui>>

\* rag_inngest_pdf, lines 73-75: every step has its output, the function
\* returns inngested.model_dump()
IngestReturn(r) ==
    /\ runs[r].kind = "ingest" /\ runs[r].status = "running"
    /\ runs[r].pc = "idle"
    /\ StepRecorded(r, LoadStep) /\ StepRecorded(r, UpsertStep)
    /\ runs' = [runs EXCEPT ![r].status = "completed",
                            ![r].result = runs[r].memo[UpsertStep]]
    /\ UNCHANGED <<collections, points, crashes, call, ui>>

\* a call to a collaborator (embedding client, vector store) inside a step
\* body raises: the executor either runs the body again or gives the run up
StepFails(r) ==
    /\ runs[r].status = "running" /\ runs[r].pc # "idle"
    /\ \/ /\ runs' = [runs EXCEPT ![r] = Failed(@, "DependencyFailure")]
          /\ UNCHANGED crashes
       \/ /\ crashes < MaxCrashes
          /\ crashes' = crashes + 1
          /\ runs' = [runs EXCEPT ![r].pc = "idle", ![r].vecs = <<>>]
    /\ UNCHANGED <<collections, points, call, ui>>

\* rag_query_pdf, line 96: int(ctx.event.data.get("top_k", 5))
TopK(data) == Get(data, "top_k", DefaultTopK)

\* str.strip() of a sequence of characters
RECURSIVE LStrip(_)
LStrip(s) == IF s # <<>> /\ Head(s) = " " THEN LStrip(Tail(s)) ELSE s
RECURSIVE RStrip(_)
RStrip(s) == IF s # <<>> /\ s[Len(s)] = " "
             THEN RStrip(SubSeq(s, 1, Len(s) - 1)) ELSE s
Strip(s) == RStrip(LStrip(s))

\* rag_query_pdf, lines 100-106: the prompt, as the sequence of its pieces
UserContent(contexts, question) ==
    <<"Use the following context to answer the question.", "Context:">>
        \o [i \in DOMAIN contexts |-> <<"- ", contexts[i]>>]
        \o <<"Question: ", question, "Answer concisely using the context above.">>

\* rag_query_pdf, lines 95-96, then _search, line 86, run by
\* ctx.step.run("embed-and-search"), line 98: the question is embedded
QueryEmbed(r) ==
    /\ runs[r].kind = "query" /\ runs[r].status = "running"
    /\ runs[r].pc = "idle"
    /\ ~StepRecorded(r, SearchStep)
    /\ IF "question" \notin DOMAIN runs[r].data
       THEN runs' = [runs EXCEPT ![r] = Failed(@, "KeyError")]
       ELSE runs' = [runs EXCEPT ![r] =
                [@ EXCEPT !.started = @ \cup {SearchStep},
                          !.embedCalls = @ + 1,
                          !.vecs = embed_texts(<<runs[r].data.question>>),
                          !.pc = "embedded"]]
    /\ UNCHANGED <<collections, points, crashes, call, ui>>

\* _search, lines 88-89: store.search(query_vec, top_k).  What the store does
\* with a limit that is not positive is not the code's to say: it raises or
\* returns no point.
QuerySearch(r) ==
    /\ runs[r].kind = "query" /\ runs[r].status = "running"
    /\ runs[r].pc = "constructed"
    /\ LET top_k == TopK(runs[r].data)
           run == [runs[r] EXCEPT !.searchK = Append(@, top_k)]
       IN \/ \E results \in IF top_k >= 1 THEN QueryPoints(points, top_k)
                            ELSE {<<>>} :
                \E found \in SearchReturns(points, results) :
                   runs' = [runs EXCEPT ![r] = Recorded(run, SearchStep, found)]
          \/ /\ top_k < 1
             /\ runs' = [runs EXCEPT ![r] = Failed(run, "DependencyFailure")]
    /\ UNCHANGED <<collections, points, crashes, call, ui>>

\* _generate_answer, lines 91-93, run by ctx.step.run("llm-generate"), line
\* 108, on the prompt of lines 100-106
QueryGenerate(r) ==
    /\ runs[r].kind = "query" /\ runs[r].status = "running"
    /\ runs[r].pc = "idle"
    /\ StepRecorded(r, SearchStep) /\ ~StepRecorded(r, GenerateStep)
    /\ LET run == [runs[r] EXCEPT
                      !.started = @ \cup {GenerateStep},
                      !.prompt = UserContent(runs[r].memo[SearchStep].contexts,
                                             runs[r].data.question)]
       IN \/ \E response \in LLMResponses :
                runs' = [runs EXCEPT ![r] = Recorded(run, GenerateStep, response)]
          \/ runs' = [runs EXCEPT ![r] = Failed(run, "DependencyFailure")]
    /\ UNCHANGED <<collections, points, crashes, call, ui>>

\* the mutated result: the contexts are counted as the sources are
NumContextsBySources(found) == Len(found.sources)

\* rag_query_pdf, line 111: len(found.contexts)
NumContexts(found) == Len(found.contexts)

\* rag_query_pdf, lines 109-111: every step has its output, the function
\* returns the answer, the sources and the number of contexts
QueryReturn(r) ==
    /\ runs[r].kind = "query" /\ runs[r].status = "running"
    /\ runs[r].pc = "idle"
    /\ StepRecorded(r, SearchStep) /\ StepRecorded(r, GenerateStep)
    /\ runs' = [runs EXCEPT
                  ![r].status = "completed",
                  ![r].result =
                      [answer |-> Strip(runs[r].memo[GenerateStep]),
                       sources |-> runs[r].memo[SearchStep].sources,
                       num_contexts |-> NumContexts(runs[r].memo[SearchStep])]]
    /\ UNCHANGED <<collections, points, crashes, call, ui>>

NoCall == [op |-> "none"]

\* the page before its first script run: an empty st.session_state, no file
\* in the uploader, no event sent; attempts lists, for every file the script
\* tried to ingest, how the try ended
NoUI == [session_state |-> {}, uploaded |-> <<>>, sent |-> <<>>,
         delivered |-> 0, attempts |-> <<>>, reruns |-> 0]

Init ==
    /\ collections = <<>>
    /\ points = <<>>
    /\ runs = <<>>
    /\ crashes = 0
    /\ call = NoCall
    /\ ui = NoUI

Next ==
    \/ Trigger
    \/ \E r \in DOMAIN runs : IngestLoad(r)
    \/ \E r \in DOMAIN runs : IngestEmbed(r)
    \/ \E r \in DOMAIN runs : StorageExists(r)
    \/ \E r \in DOMAIN runs : StorageCreate(r)
    \/ \E r \in DOMAIN runs : IngestUpsert(r)
    \/ \E r \in DOMAIN runs : IngestReturn(r)
    \/ \E r \in DOMAIN runs : QueryEmbed(r)
    \/ \E r \in DOMAIN runs : QuerySearch(r)
    \/ \E r \in DOMAIN runs : QueryGenerate(r)
    \/ \E r \in DOMAIN runs : QueryReturn(r)
    \/ \E r \in DOMAIN runs : StepFails(r)

Spec == Init /\ [][Next]_vars

(***************************************************************************)
(* Ingestion runs that overlap: every ingest event that names a PDF is     *)
(* sent once, at any time, and the runs of the events sent so far take     *)
(* their steps in any order.  The events differ in their source_id.        *)
(***************************************************************************)
ConcEvents == {e \in IngestEvents : "pdf_path" \in DOMAIN e}

\* an event arrives while other runs are under way
TriggerConc ==
    /\ \E data \in ConcEvents :
          /\ \A q \in DOMAIN runs : runs[q].data # data
          /\ runs' = Append(runs, NewRun("ingest", data))
    /\ UNCHANGED <<collections, points, crashes, call, ui>>

NextConc ==
    \/ TriggerConc
    \/ \E r \in DOMAIN runs : IngestLoad(r)
    \/ \E r \in DOMAIN runs : IngestEmbed(r)
    \/ \E r \in DOMAIN runs : StorageExists(r)
    \/ \E r \in DOMAIN runs : StorageCreate(r)
    \/ \E r \in DOMAIN runs : IngestUpsert(r)
    \/ \E r \in DOMAIN runs : IngestReturn(r)
    \/ \E r \in DOMAIN runs : StepFails(r)

SpecConc == Init /\ [][NextConc]_vars

(***************************************************************************)
(* QdrantStorage called directly: one call of upsert or of search on a     *)
(* storage object whose collection holds any of a few sets of points.      *)
(***************************************************************************)
IdSamples == {ChunkId(PathA, 0), ChunkId(PathA, 1), ChunkId(SourceB, 0)}
VectorSamples == {1, 2}
\* payloads with and without a text, with and without a source
PayloadSamples == {Payload(PathA, "x"), Payload(SourceB, "y"),
                   Payload(SourceB, ""), [source |-> PathA]}
StoreSamples ==
    UNION {[D -> [vector : {1}, payload : PayloadSamples]] :
              D \in SUBSET IdSamples}

InitStore ==
    /\ collections = (DefaultCollection :> DefaultDim)
    /\ points \in StoreSamples
    /\ runs = <<>>
    /\ crashes = 0
    /\ call = NoCall
    /\ ui = NoUI

\* QdrantStorage.upsert(ids, vectors, payloads), lines 28-30
CallUpsert ==
    /\ call = NoCall
    /\ \E ids \in SeqsUpTo({ChunkId(PathA, 0), ChunkId(PathA, 1)}, MaxArgs)
                    \ {<<>>},
          vectors \in SeqsUpTo(VectorSamples, MaxArgs),
          payloads \in SeqsUpTo({Payload(PathA, "x"), Payload(PathA, "y")},
                               MaxArgs) :
         \E out \in StorageUpsert(points, ids, vectors, payloads) :
            /\ points' = out.points
            /\ call' = [op |-> "upsert", ids |-> ids, vectors |-> vectors,
                        payloads |-> payloads, before |-> points,
                        error |-> out.error]
    /\ UNCHANGED <<collections, runs, crashes, ui>>

\* QdrantStorage.search(query_vector, top_k), lines 32-54, for top_k >= 1
CallSearch ==
    /\ call = NoCall
    /\ \E top_k \in 1..MaxTopK :
         \E results \in QueryPoints(points, top_k) :
            \E found \in SearchReturns(points, results) :
               call' = [op |-> "search", top_k |-> top_k, results |-> results,
                        found |-> found, error |-> ""]
    /\ UNCHANGED <<collections, points, runs, crashes, ui>>

NextStore == CallUpsert \/ CallSearch

SpecStore == InitStore /\ [][NextStore]_vars

(***************************************************************************)
(* load_chunk_pdf (src/data_loader.py), called directly.  A text is what   *)
(* the splitter sees of it: the sequence of its sentences, each a number   *)
(* of characters and a number of tokens of the splitter's tokenizer.  A    *)
(* chunk is the run of sentences it joins, given by the page it is cut     *)
(* from and the character offsets [from, to) it covers in that page.       *)
(***************************************************************************)
\* the sentences of the texts tried: 100 characters each, of one token per
\* character or one token per four characters (an English text)
SentenceShapes == {[chars |-> 100, tokens |-> 100], [chars |-> 100, tokens |-> 25]}

\* a page of n sentences of one shape; no sentence at all is the empty text
PageText(shape, n) == [i \in 1..n |-> shape]

\* the characters, and the tokens, of sentences i..j of a text
RECURSIVE CharsOf(_, _, _)
CharsOf(text, i, j) == IF i > j THEN 0 ELSE text[i].chars + CharsOf(text, i + 1, j)
RECURSIVE TokensOf(_, _, _)
TokensOf(text, i, j) == IF i > j THEN 0 ELSE text[i].tokens + TokensOf(text, i + 1, j)

\* SentenceSplitter, closing a chunk that ends with sentence last: the next
\* chunk opens with the last sentences of the closed one, taken backwards
\* while they stay within chunk_overlap tokens; the first of them
RECURSIVE OverlapStart(_, _, _, _)
OverlapStart(text, first, i, len) ==
    IF i >= first /\ len + text[i].tokens <= chunk_overlap
    THEN OverlapStart(text, first, i - 1, len + text[i].tokens)
    ELSE i + 1

\* SentenceSplitter merging sentences into chunks: the sentence idx is added
\* to the open chunk first..idx-1 when it fits in chunk_size tokens or the
\* chunk holds no new sentence yet; otherwise the chunk is closed and the
\* next one opened with its overlap
RECURSIVE Merge(_, _, _, _, _)
Merge(text, idx, first, new_chunk, chunks) ==
    IF idx > Len(text)
    THEN IF new_chunk THEN chunks ELSE Append(chunks, <<first, Len(text)>>)
    ELSE IF TokensOf(text, first, idx - 1) + text[idx].tokens > chunk_size
            /\ ~new_chunk
         THEN Merge(text, idx, OverlapStart(text, first, idx - 1, 0), TRUE,
                    Append(chunks, <<first, idx - 1>>))
         ELSE Merge(text, idx + 1, first, FALSE, chunks)

\* splitter.split_text(t) of a text that is not empty, line 40: the chunks
\* as character offsets
SplitText(text) ==
    LET merged == Merge(text, 1, 1, TRUE, <<>>)
    IN [k \in DOMAIN merged |->
           [from |-> CharsOf(text, 1, merged[k][1] - 1),
            to |-> CharsOf(text, 1, merged[k][2])]]

\* load_chunk_pdf, lines 35-41: the pages that have a text are split one by
\* one, and their chunks put in one list
RECURSIVE load_chunk_pdf(_, _)
load_chunk_pdf(docs, p) ==
    IF p > Len(docs) THEN <<>>
    ELSE (IF docs[p] = <<>> THEN <<>>
          ELSE LET cut == SplitText(docs[p])
               IN [k \in DOMAIN cut |->
                      [page |-> p, from |-> cut[k].from, to |-> cut[k].to]])
         \o load_chunk_pdf(docs, p + 1)

\* load_chunk_pdf(path) of a PDF of up to MaxPages pages
CallLoadChunk ==
    /\ call = NoCall
    /\ \E shape \in SentenceShapes :
         \E sizes \in SeqsUpTo(0..MaxSentences, MaxPages) \ {<<>>} :
            LET docs == [p \in DOMAIN sizes |-> PageText(shape, sizes[p])]
            IN call' = [op |-> "load_chunk_pdf", docs |-> docs,
                        chunks |-> load_chunk_pdf(docs, 1), error |-> ""]
    /\ UNCHANGED <<collections, points, runs, crashes, ui>>

NextChunk == CallLoadChunk

SpecChunk == Init /\ [][NextChunk]_vars

(***************************************************************************)
(* wait_for_run_output (src/streamlit_app.py), called directly.  The call  *)
(* record is the frame of the call: its arguments, its locals, the clock   *)
(* as the call last saw it, the answer of its latest fetch_runs, and how   *)
(* it ended.  Time is counted in ticks; a dict is the sequence of its      *)
(* items.                                                                  *)
(***************************************************************************)
\* the clock readings of the model: a wait that has not timed out by
\* MaxTimeout ends within a sleep and a fetch after it
MaxClock == MaxTimeout + 3

\* the statuses the API reports for a run
RunStatuses == {"Running", "Completed", "Finished", "Failed", "Cancelled"}

\* the runs the API may list: with or without a status, with or without an
\* output, which may be the empty dict
RunSamples == [status : RunStatuses, output : {<<>>, <<<<"answer", "ok">>>>}]
                 \cup [status : RunStatuses] \cup {[run_id |-> "r"]}

\* fetch_runs(event_id), lines 71-86, when it returns: data.get("data", []),
\* no run yet, one run, or a later run listed after it
FetchAnswers == {<<>>} \cup {<<run>> : run \in RunSamples}
                    \cup {<<run, [status |-> "Completed"]>> : run \in RunSamples}

\* line 98
SuccessStatuses == {"Completed", "Succeeded", "Success", "Finished"}

\* the mutated check: a cancelled run is not taken to have ended
FailureStatusesFailedOnly == {"Failed"}

\* line 101
FailureStatuses == {"Failed", "Cancelled"}

\* the mutated check: the elapsed time is taken the wrong way round
TimedOutBackwards(now, start, timeout_s) == start - now > timeout_s

\* line 104: time.time() - start > timeout_s
TimedOut(now, start, timeout_s) == now - start > timeout_s

\* wait_for_run_output(event_id, timeout_s, poll_interval_s), lines 88-90
CallWait ==
    /\ call = NoCall
    /\ \E timeout_s \in 0..MaxTimeout :
          call' = [op |-> "wait", timeout_s |-> timeout_s, start |-> 0,
                   now |-> 0, last_status |-> "None", polls |-> 0,
                   fetched |-> <<>>, pc |-> "poll", outcome |-> "",
                   value |-> <<>>]
    /\ UNCHANGED <<collections, points, runs, crashes, ui>>

\* one turn of the loop, lines 92-105, with the answer of fetch_runs and the
\* clock read at line 104
WaitTurn(frame, fetched, now) ==
    LET polled == [frame EXCEPT !.polls = @ + 1, !.fetched = fetched,
                                !.now = now]
        run == fetched[1]
        status == Get(run, "status", "None")
        seen == [polled EXCEPT !.last_status =
                    IF status # "None" THEN status ELSE @]
        timeout(f) ==
            IF TimedOut(now, f.start, f.timeout_s)
            THEN [f EXCEPT !.pc = "done", !.outcome = "TimeoutError",
                           !.value = f.last_status]
            ELSE [f EXCEPT !.pc = "sleep"]
    IN IF fetched = <<>> THEN timeout(polled)
       ELSE IF status \in SuccessStatuses
            THEN [seen EXCEPT !.pc = "done", !.outcome = "return",
                              !.value = Get(run, "output", <<>>)]
            ELSE IF status \in FailureStatuses
                 THEN [seen EXCEPT !.pc = "done", !.outcome = "RuntimeError",
                                   !.value = status]
                 ELSE timeout(seen)

\* lines 92-105: fetch_runs returns, after a while, or raises
WaitPoll ==
    /\ call.op = "wait" /\ call.pc = "poll"
    /\ \/ \E took \in 0..1 : \E fetched \in FetchAnswers :
             call' = WaitTurn(call, fetched, call.now + took)
       \/ call' = [call EXCEPT !.pc = "done", !.outcome = "HTTPError",
                               !.polls = @ + 1]
    /\ UNCHANGED <<collections, points, runs, crashes, ui>>

\* line 107: time.sleep(poll_interval_s), which lasts a tick or more
WaitSleep ==
    /\ call.op = "wait" /\ call.pc = "sleep"
    /\ \E slept \in 1..2 :
          /\ call.now + slept <= MaxClock
          /\ call' = [call EXCEPT !.now = @ + slept, !.pc = "poll"]
    /\ UNCHANGED <<collections, points, runs, crashes, ui>>

NextWait == CallWait \/ WaitPoll \/ WaitSleep

\* every fetch_runs call ends and the clock advances
SpecWait == Init /\ [][NextWait]_vars /\ WF_vars(WaitPoll) /\ WF_vars(WaitSleep)

(***************************************************************************)
(* The Streamlit page (src/streamlit_app.py, lines 111-166).  Every        *)
(* interaction runs the script again from the top, with st.session_state   *)
(* kept; the events the page sends go to the Inngest server, which starts  *)
(* a run of each function registered for the event's name.                 *)
(***************************************************************************)
\* the files a user may put in the uploader: uploaded.name, uploaded.size
Files == {[name |-> <<"a">>, size |-> 1], [name |-> <<"a">>, size |-> 11],
          [name |-> <<"a", "_", "1">>, size |-> 1]}

\* the text typed in the question field
TypedQuestions == {<<" ">>, <<" ", "q">>}

\* line 116: f"processed_{uploaded.name}_{uploaded.size}"
FileId(f) == <<"processed_">> \o f.name \o <<"_">> \o Str(f.size)

\* the mutated test: the mark of a file is not found
ProcessedNever(session_state, file_id) == FALSE

\* line 118: file_id in st.session_state
Processed(session_state, file_id) == file_id \in session_state

\* lines 123-126: the text PdfReader extracts from a file, as a piece
ExtractedText(f) == <<"text of ", f.name, Str(f.size)>>

\* send_rag_ingest_text_event, lines 43-51: the event sent
IngestTextEvent(filename, text) ==
    [name |-> "rag/ingest_text", data |-> [filename |-> filename, text |-> text]]

\* send_rag_query_event, lines 55-63: the event sent
QueryEvent(question, top_k) ==
    [name |-> "rag/query_pdf_ai", data |-> [question |-> question, top_k |-> top_k]]

\* main.py, lines 47-50, 79-82 and 122-127: the functions served, each with
\* the event that triggers it and the field of event.data it must find
Functions ==
    {[fn |-> "rag_inngest_pdf", event |-> "rag/ingest_pdf", kind |-> "ingest",
      reads |-> "pdf_path"],
     [fn |-> "rag_query_pdf", event |-> "rag/query_pdf_ai", kind |-> "query",
      reads |-> "question"]}

\* line 112: the user puts a file in the uploader, or takes it out
ChooseFile ==
    /\ \E u \in {<<>>} \cup {<<f>> : f \in Files} :
          /\ u # ui.uploaded
          /\ ui' = [ui EXCEPT !.uploaded = u]
    /\ UNCHANGED <<collections, points, runs, crashes, call>>

\* lines 114-140 of one script run: the pages it may leave.  The extraction
\* or the send may raise, which the except clause reports.
UploadPart(page) ==
    IF page.uploaded = <<>> THEN {page}
    ELSE LET f == page.uploaded[1]
             file_id == FileId(f)
             tried(how) == [page EXCEPT !.attempts =
                              Append(@, [file |-> f, outcome |-> how])]
         IN IF Processed(page.session_state, file_id) THEN {page}
            ELSE {tried("extraction raised"), tried("send raised"),
                  [tried("sent") EXCEPT
                      !.sent = Append(@, IngestTextEvent(f.name,
                                                         ExtractedText(f))),
                      !.session_state = @ \cup {file_id}]}

\* lines 145-166 of one script run: the form, submitted or not; the send may
\* raise.  What wait_for_run_output gives is shown and not kept.
FormPart(page, submitted, question, top_k) ==
    IF submitted /\ Strip(question) # <<>>
    THEN {[page EXCEPT !.sent = Append(@, QueryEvent(Strip(question), top_k))],
          page}
    ELSE {page}

\* one run of the script, lines 111-166
Rerun ==
    /\ ui.reruns < MaxReruns
    /\ \E submitted \in BOOLEAN : \E question \in TypedQuestions :
         \E afterUpload \in UploadPart(ui) :
            \E afterForm \in FormPart(afterUpload, submitted, question,
                                      DefaultTopK) :
               ui' = [afterForm EXCEPT !.reruns = @ + 1]
    /\ UNCHANGED <<collections, points, runs, crashes, call>>

\* the Inngest server takes the next event sent and starts a run of the
\* function registered for its name, if there is one
Dispatch ==
    /\ ui.delivered < Len(ui.sent)
    /\ LET event == ui.sent[ui.delivered + 1]
           fns == {fn \in Functions : fn.event = event.name}
       IN runs' = IF fns = {} THEN runs
                  ELSE Append(runs, NewRun((CHOOSE fn \in fns : TRUE).kind,
                                           event.data))
    /\ ui' = [ui EXCEPT !.delivered = @ + 1]
    /\ UNCHANGED <<collections, points, crashes, call>>

NextUI == ChooseFile \/ Rerun \/ Dispatch

SpecUI == Init /\ [][NextUI]_vars

(***************************************************************************)
(* Properties.                                                             *)
(***************************************************************************)
Indexes == 0..(MaxChunks - 1)

\* the ids of the points of the collection whose payload names the source
PointsOf(source_id) ==
    {id \in DOMAIN points : Get(points[id].payload, "source", <<>>) = source_id}

IngestRuns == {r \in DOMAIN runs : runs[r].kind = "ingest"}
QueryRuns == {r \in DOMAIN runs : runs[r].kind = "query"}
Loaded(r) == r \in IngestRuns /\ LoadStep \in DOMAIN runs[r].memo
ChunksOf(r) == runs[r].memo[LoadStep].chunks
SourceOf(r) == runs[r].memo[LoadStep].source_id

\* the id the code gives each (source, index) pair of the model
IdTable == [p \in Sources \X Indexes |-> ChunkId(p[1], p[2])]

\* C1: a point id is a function of (source_id, index) alone and no two
\* pairs share an id: every stored point sits under the id of exactly one
\* (source, index), the source its payload names, every id a run wrote is the
\* id of one (source, index) pair of that run's source, and so a source
\* never holds more points than it has indexes.
C1_DeterministicIds ==
    /\ \A p, q \in DOMAIN IdTable : IdTable[p] = IdTable[q] => p = q
    /\ \A id \in DOMAIN points :
          /\ \E p \in DOMAIN IdTable : IdTable[p] = id
          /\ \A p \in DOMAIN IdTable :
                IdTable[p] = id => points[id].payload.source = p[1]
    /\ \A r \in IngestRuns : \A id \in DOMAIN runs[r].wrote :
          /\ runs[r].wrote[id].payload.source = SourceOf(r)
          /\ \A p \in DOMAIN IdTable : IdTable[p] = id => p[1] = SourceOf(r)
    /\ \A s \in Sources : Cardinality(PointsOf(s)) <= MaxChunks

\* C1 witness: both sources hold points, and a run has executed its upsert
\* twice over the points it wrote before
C1_Witness ==
    /\ \A s \in Sources : PointsOf(s) # {}
    /\ \E r \in IngestRuns :
          /\ runs[r].upsertCalls >= 2
          /\ Cardinality(DOMAIN runs[r].wrote) = MaxChunks
          /\ Cardinality(PointsOf(SourceOf(r))) = MaxChunks

\* C2: once a run holds the recorded output of embed-and-upsert, invoking
\* the function again makes no embedding call and no upsert call for that
\* run, and what the invocation returns is the recorded output.
C2_RecordedStepNotRerun ==
    [][\A r \in DOMAIN runs :
          (/\ runs[r].kind = "ingest" /\ runs[r].status = "running"
           /\ UpsertStep \in DOMAIN runs[r].memo)
          => /\ r \in DOMAIN runs'
             /\ runs'[r].embedCalls = runs[r].embedCalls
             /\ runs'[r].upsertCalls = runs[r].upsertCalls
             /\ points' = points
             /\ runs'[r] # runs[r] =>
                   /\ runs'[r].status = "completed"
                   /\ runs'[r].result = runs[r].memo[UpsertStep]]_vars

\* C2 witness: a run was invoked again after its upsert was recorded and has
\* returned, having called the embedding client and the store once each
C2_Witness ==
    \E r \in IngestRuns :
        /\ runs[r].status = "completed"
        /\ runs[r].embedCalls = 1 /\ runs[r].upsertCalls = 1
        /\ runs[r].result = [inngested |-> MaxChunks]

\* C3: after a completed ingestion that follows the completed ingestions
\* before it (no step output was ever lost, so every point of the collection
\* was written by an ingestion that completed), the collection holds, for
\* the run's source, exactly as many points as the run had chunks.
C3_ExactlySecondCount ==
    \A r \in IngestRuns :
        (runs[r].status = "completed" /\ crashes = 0)
        => Cardinality(PointsOf(SourceOf(r))) = Len(ChunksOf(r))

\* C4: a run whose load-and-chunk output is empty makes no embedding call
\* and no upsert, leaves the points and the collections as they are, does
\* not fail, and completes with count 0.
C4_EmptyIngestIsNoOp ==
    [][\A r \in DOMAIN runs :
          (/\ runs[r].status = "running"
           /\ Loaded(r) /\ ChunksOf(r) = <<>>)
          => /\ r \in DOMAIN runs'
             /\ points' = points /\ collections' = collections
             /\ runs'[r].embedCalls = 0 /\ runs'[r].upsertCalls = 0
             /\ runs'[r].wrote = <<>>
             /\ runs'[r].status # "failed"
             /\ runs'[r].status = "completed"
                   => runs'[r].result = [inngested |-> 0]]_vars

\* C4 witness: a run of no chunks has completed with count 0 on a store that
\* has no collection
C4_Witness ==
    \E r \in IngestRuns :
        /\ runs[r].status = "completed"
        /\ ChunksOf(r) = <<>>
        /\ runs[r].result = [inngested |-> 0]
        /\ collections = <<>>

\* C5: an upsert whose ids, vectors and payloads are not all of the same
\* length ends in an error and leaves the points as they were.
C5_MismatchedUpsertFails ==
    (/\ call.op = "upsert"
     /\ ~(Len(call.ids) = Len(call.vectors) /\ Len(call.ids) = Len(call.payloads)))
    => (call.error # "" /\ points = call.before)

\* C6: every search of a query run is made with the event's top_k when that
\* is positive, and with 5 when it is missing, zero or negative.
C6_TopKPositiveOrDefault ==
    \A r \in QueryRuns : \A k \in DOMAIN runs[r].searchK :
        runs[r].searchK[k] =
            IF "top_k" \in DOMAIN runs[r].data /\ runs[r].data.top_k > 0
            THEN runs[r].data.top_k ELSE DefaultTopK

\* the positions of the results that carry a text
WithText(pts, results) ==
    {j \in DOMAIN results : Get(pts[results[j]].payload, "text", "") # ""}

\* C7: a search with top_k >= 1 returns at most top_k contexts, which are
\* the texts of the ranked results that have one, in the order of the
\* ranking; every source returned is the source of a result whose text was
\* returned, none is listed twice; on an empty collection the answer is
\* {contexts: [], sources: []}, and no error.
C7_SearchResultShape ==
    call.op = "search" =>
        LET found == call.found
            results == call.results
            kept == WithText(points, results)
        IN /\ call.error = ""
           /\ Len(found.contexts) <= call.top_k
           /\ Len(found.contexts) = Cardinality(kept)
           /\ \A j \in kept :
                 found.contexts[Cardinality({i \in kept : i <= j})]
                     = points[results[j]].payload.text
           /\ \A k \in DOMAIN found.sources : \E j \in kept :
                 points[results[j]].payload.source = found.sources[k]
           /\ \A k, l \in DOMAIN found.sources :
                 k # l => found.sources[k] # found.sources[l]
           /\ points = <<>> => found = [contexts |-> <<>>, sources |-> <<>>]

\* C7 witness: a search limited to fewer points than the collection holds
\* ranked a point without a text, which it left out with its source
C7_Witness ==
    /\ call.op = "search"
    /\ Len(call.results) = call.top_k
    /\ Cardinality(DOMAIN points) > call.top_k
    /\ Len(call.found.contexts) = 1
    /\ Len(call.results) = 2
    /\ \E j \in DOMAIN call.results :
          /\ j \notin WithText(points, call.results)
          /\ \A k \in DOMAIN call.found.sources :
                call.found.sources[k] # points[call.results[j]].payload.source

\* C8: a query run whose search returned no context goes on to llm-generate
\* with an empty context block and fails only if that call fails; completed,
\* its result is {answer, sources: [], num_contexts: 0}; and every completed
\* query run reports as num_contexts the number of contexts its search
\* returned.
C8_ZeroContextsStillAnswers ==
    \A r \in QueryRuns :
        LET run == runs[r]
            searched == SearchStep \in DOMAIN run.memo
        IN /\ run.status = "completed" =>
                /\ searched
                /\ DOMAIN run.result = {"answer", "sources", "num_contexts"}
                /\ run.result.num_contexts = Len(run.memo[SearchStep].contexts)
                /\ run.result.sources = run.memo[SearchStep].sources
           /\ (searched /\ run.memo[SearchStep].contexts = <<>>) =>
                /\ (run.status = "running" /\ GenerateStep \notin DOMAIN run.memo)
                      => ENABLED QueryGenerate(r)
                /\ run.status = "failed" =>
                      (GenerateStep \in run.started /\ run.error = "DependencyFailure")
                /\ run.status = "completed" =>
                      /\ GenerateStep \in run.started
                      /\ run.prompt = UserContent(<<>>, run.data.question)
                      /\ run.result.sources = <<>>
                      /\ run.result.num_contexts = 0

\* C8 witness: a query run has completed on no context, with the answer of
\* the model stripped
C8_Witness ==
    \E r \in QueryRuns :
        /\ runs[r].status = "completed"
        /\ runs[r].result.num_contexts = 0
        /\ runs[r].result.sources = <<>>
        /\ runs[r].result.answer = <<"o", "k">>

\* C9: a completed ingestion run of n >= 1 chunks reports inngested = n and
\* wrote exactly n points: for each index i the point under the id of
\* (source_id, i) with the i-th vector of the embedding call and the payload
\* {source: source_id, text: chunk i}, which the collection now holds.
C9_CountEqualsPointsWritten ==
    \A r \in IngestRuns :
        (runs[r].status = "completed" /\ Len(ChunksOf(r)) >= 1) =>
            LET chunks == ChunksOf(r)
                n == Len(chunks)
                vecs == embed_texts(chunks)
            IN /\ runs[r].result = [inngested |-> n]
               /\ Cardinality(DOMAIN runs[r].wrote) = n
               /\ runs[r].result.inngested = Cardinality(DOMAIN runs[r].wrote)
               /\ \A i \in 1..n :
                     LET id == Uuid5(SourceOf(r) \o <<":">> \o Str(i - 1))
                     IN /\ id \in DOMAIN runs[r].wrote
                        /\ runs[r].wrote[id] =
                              [vector |-> vecs[i],
                               payload |-> [source |-> SourceOf(r),
                                            text |-> chunks[i]]]
                        /\ id \in DOMAIN points
                        /\ points[id] = runs[r].wrote[id]

\* C9 witness: a run of MaxChunks chunks has completed
C9_Witness ==
    \E r \in IngestRuns :
        /\ runs[r].status = "completed"
        /\ Len(ChunksOf(r)) = MaxChunks
        /\ runs[r].result = [inngested |-> MaxChunks]
        /\ Cardinality(DOMAIN runs[r].wrote) = MaxChunks

\* C10: a run whose event lacks the required field (pdf_path of an ingest
\* event, question of a query event) has started no step, and fails.
C10_MalformedFailsBeforeAnyStep ==
    \A r \in DOMAIN runs :
        ((runs[r].kind = "ingest" /\ "pdf_path" \notin DOMAIN runs[r].data)
            \/ (runs[r].kind = "query" /\ "question" \notin DOMAIN runs[r].data))
        => /\ runs[r].started = {}
           /\ runs[r].status # "completed"

\* C11: while ingestion runs of different sources overlap, the ids the runs
\* wrote are disjoint, every point a run wrote is in the collection with the
\* vector and the payload that run gave it, the collection holds the points
\* the runs wrote and no other, and a run that has completed left one point
\* for each of its chunks, with that chunk's text and vector.
C11_ConcurrentSourcesKeepPoints ==
    /\ \A r1, r2 \in IngestRuns :
          r1 # r2 => DOMAIN runs[r1].wrote \cap DOMAIN runs[r2].wrote = {}
    /\ \A r \in IngestRuns : \A id \in DOMAIN runs[r].wrote :
          /\ id \in DOMAIN points
          /\ points[id] = runs[r].wrote[id]
    /\ DOMAIN points = UNION {DOMAIN runs[r].wrote : r \in IngestRuns}
    /\ \A r1, r2 \in IngestRuns :
          (r1 # r2 /\ Loaded(r1) /\ Loaded(r2)) => SourceOf(r1) # SourceOf(r2)
    /\ \A r \in IngestRuns :
          runs[r].status = "completed" =>
             /\ Cardinality(PointsOf(SourceOf(r))) = Len(ChunksOf(r))
             /\ \A i \in DOMAIN ChunksOf(r) :
                   LET id == ChunkId(SourceOf(r), i - 1)
                   IN /\ id \in DOMAIN points
                      /\ points[id] = [vector |-> Embedding(ChunksOf(r)[i]),
                                       payload |-> Payload(SourceOf(r),
                                                           ChunksOf(r)[i])]

\* C11 witness: two runs have each written MaxChunks points and neither has
\* returned; one of them is about to execute its upsert a second time
C11_Witness ==
    \E r1, r2 \in IngestRuns :
        /\ r1 # r2
        /\ runs[r1].status = "running" /\ runs[r2].status = "running"
        /\ Cardinality(DOMAIN runs[r1].wrote) = MaxChunks
        /\ Cardinality(DOMAIN runs[r2].wrote) = MaxChunks
        /\ runs[r2].pc = "constructed" /\ runs[r2].upsertCalls = 1
        /\ Cardinality(DOMAIN points) = 2 * MaxChunks

\* C12: constructing QdrantStorage, by any run and whatever the other runs
\* do, never raises because the collection exists, leaves the collection
\* there, changes no point, and changes no collection that was there.
C12_EnsureCollectionIdempotent ==
    [][\A r \in DOMAIN runs :
          (runs[r].pc \in {"embedded", "creating"} /\ runs'[r] # runs[r])
          => /\ runs'[r].error # "CollectionExists"
             /\ points' = points
             /\ DefaultCollection \in DOMAIN collections
                   => collections' = collections
             /\ runs'[r].pc = "constructed"
                   => DOMAIN collections' = {DefaultCollection}]_vars

\* C14: a run starts embed-and-upsert only when it holds the recorded output
\* of load-and-chunk, and llm-generate only when it holds the recorded output
\* of embed-and-search; it starts a step only when none of its step bodies is
\* executing; and the record of a completed or failed run never changes (it
\* is only dropped, for the run of the next event).
C14_StepsInOrder ==
    [][\A r \in DOMAIN runs :
          LET old == runs[r]
              new == runs'[r]
              fresh == new.started = {} /\ new.memo = <<>>
                          /\ new.status = "running"
          IN /\ old.status \in {"completed", "failed"} => (new = old \/ fresh)
             /\ \A name \in new.started \ old.started :
                   /\ old.status = "running" /\ old.pc = "idle"
                   /\ name = UpsertStep => LoadStep \in DOMAIN old.memo
                   /\ name = GenerateStep => SearchStep \in DOMAIN old.memo
                   /\ new.started = old.started \cup {name}
             /\ UpsertStep \in new.started => LoadStep \in DOMAIN new.memo
             /\ GenerateStep \in new.started
                   => SearchStep \in DOMAIN new.memo]_vars

\* C14 witness: an ingestion run that started both its steps, the second
\* one twice, has completed
C14_Witness ==
    \E r \in IngestRuns :
        /\ runs[r].status = "completed"
        /\ runs[r].started = {LoadStep, UpsertStep}
        /\ runs[r].embedCalls = 2

\* C15: when the body of embed-and-upsert executes again for a run (its
\* output was lost after the upsert), the upsert it makes leaves every point
\* of the collection as the first execution left it, the points it wrote are
\* those the first execution wrote, and the output recorded in the end is
\* that of a single execution.
C15_RepeatedUpsertSameEffect ==
    [][\A r \in DOMAIN runs :
          (/\ runs[r].kind = "ingest" /\ runs[r].upsertCalls >= 1
           /\ r \in DOMAIN runs' /\ runs'[r].upsertCalls > runs[r].upsertCalls)
          => /\ points' = points
             /\ runs'[r].wrote = runs[r].wrote
             /\ runs'[r].error = ""
             /\ UpsertStep \in DOMAIN runs'[r].memo
                   => runs'[r].memo[UpsertStep]
                         = [inngested |-> Cardinality(DOMAIN runs[r].wrote)]]_vars

\* C15 witness: a run whose upsert body executed twice has completed
C15_Witness ==
    \E r \in IngestRuns :
        /\ runs[r].status = "completed"
        /\ runs[r].upsertCalls = 2 /\ runs[r].embedCalls = 2
        /\ runs[r].result = [inngested |-> MaxChunks]
        /\ Cardinality(PointsOf(SourceOf(r))) = MaxChunks

\* the windows of the rule over a text of n characters: window k covers
\* [k * (size - overlap), k * (size - overlap) + size), clipped to n, for
\* every k whose start is below n
Windows(n) ==
    LET step == chunk_size - chunk_overlap
        count == IF n = 0 THEN 0 ELSE ((n - 1) \div step) + 1
    IN [k \in 1..count |->
           [from |-> (k - 1) * step,
            to |-> Min((k - 1) * step + chunk_size, n)]]

\* C13: the chunks of a one-page text are the windows of the rule with size
\* 1000 and overlap 200 (so a text of 2500 characters has the 3 chunks
\* 0-1000, 800-1800, 1600-2500), and every chunk but the first starts 200
\* characters before the end of the chunk before it.
C13_WindowingRule ==
    (call.op = "load_chunk_pdf" /\ Len(call.docs) = 1) =>
        LET n == CharsOf(call.docs[1], 1, Len(call.docs[1]))
            chunks == call.chunks
        IN /\ Len(chunks) = Len(Windows(n))
           /\ \A k \in DOMAIN chunks :
                 /\ chunks[k].from = Windows(n)[k].from
                 /\ chunks[k].to = Windows(n)[k].to
           /\ \A k \in DOMAIN chunks :
                 k > 1 => chunks[k].from = chunks[k - 1].to - chunk_overlap

\* the status of the first run of the latest answer, "None" without one
Observed == IF call.fetched = <<>> THEN "None"
            ELSE Get(call.fetched[1], "status", "None")

\* C16: a wait that returned saw, in its latest poll, the first run in a
\* success status, and returns that run's output, {} when it has none; one
\* that raised RuntimeError saw it Failed or Cancelled; one that raised
\* TimeoutError saw no terminal status in its latest poll, more than
\* timeout_s after it began; and a wait whose latest poll saw a terminal
\* status has ended, and not in a timeout.
C16_TimeoutIsNotFailure ==
    (call.op = "wait" /\ call.polls >= 1 /\ call.outcome # "HTTPError") =>
        LET terminal == {"Completed", "Succeeded", "Success", "Finished",
                         "Failed", "Cancelled"}
            run == call.fetched[1]
        IN /\ call.outcome = "return" =>
                /\ Observed \in terminal \ {"Failed", "Cancelled"}
                /\ call.value = IF "output" \in DOMAIN run
                                THEN run.output ELSE <<>>
           /\ call.outcome = "RuntimeError" =>
                Observed \in {"Failed", "Cancelled"}
           /\ call.outcome = "TimeoutError" =>
                /\ Observed \notin terminal
                /\ call.now - call.start > call.timeout_s
           /\ Observed \in terminal =>
                (call.pc = "done" /\ call.outcome # "TimeoutError")

\* C16 witness: a wait timed out on a run that was still running, after
\* polling more than once
C16_Witness ==
    /\ call.op = "wait" /\ call.outcome = "TimeoutError"
    /\ call.polls >= 2 /\ call.timeout_s = MaxTimeout
    /\ Observed = "Running" /\ call.last_status = "Running"

\* C18: every wait ends, with an output, a RuntimeError or a TimeoutError
\* when every fetch returned, and it never sleeps or polls again after a
\* poll that saw no terminal status more than timeout_s after the start.
C18_WaitTerminates ==
    /\ [](call.op = "wait" => <>(call.op = "wait" /\ call.pc = "done"))
    /\ [](call.op = "wait" =>
            /\ (call.pc = "done" /\ call.outcome # "HTTPError")
                  => call.outcome \in {"return", "RuntimeError", "TimeoutError"}
            /\ (call.polls >= 1 /\ call.pc = "sleep")
                  => call.now - call.start <= call.timeout_s
            /\ (call.polls >= 1 /\ call.pc = "poll")
                  => call.now - call.start <= call.timeout_s + 2)

\* C18 witness: a wait has ended in a timeout at the latest clock reading it
\* can see
C18_Witness ==
    /\ call.op = "wait" /\ call.pc = "done"
    /\ call.outcome = "TimeoutError"
    /\ call.now = MaxClock

\* the ingest events among the events the page sent
IngestSent == {i \in DOMAIN ui.sent : ui.sent[i].name = "rag/ingest_text"}

\* C17: every ingest event the page sent is an event that a served function
\* is triggered by and carries the field that function reads, and once the
\* server has taken it, an ingestion run for its data exists.
C17_UIIngestStartsRun ==
    \A i \in IngestSent :
        /\ \E fn \in Functions :
              /\ fn.event = ui.sent[i].name
              /\ fn.reads \in DOMAIN ui.sent[i].data
        /\ i <= ui.delivered =>
              \E r \in DOMAIN runs :
                  runs[r].kind = "ingest" /\ runs[r].data = ui.sent[i].data

\* the tries of a file that ended in a send
Sends(f) == {k \in DOMAIN ui.attempts :
                ui.attempts[k].file = f /\ ui.attempts[k].outcome = "sent"}

\* C19: in a session, for every file at most one try ended in a send, the
\* file is marked exactly when one did, and the page sent one ingest event
\* per such try; a script run tries a file only when it is in the uploader
\* and unmarked, and then always; a try that raised marks nothing and sends
\* no ingest event, a try that sent marks the file.
C19_AtMostOneIngestPerFile ==
    /\ [](/\ \A f \in Files :
               /\ Cardinality(Sends(f)) <= 1
               /\ FileId(f) \in ui.session_state <=> Sends(f) # {}
          /\ Cardinality(IngestSent)
                = Cardinality(UNION {Sends(f) : f \in Files}))
    /\ [][ui'.reruns > ui.reruns =>
            LET todo == ui.uploaded # <<>>
                          /\ FileId(ui.uploaded[1]) \notin ui.session_state
                last == ui'.attempts[Len(ui'.attempts)]
            IN IF ~todo
               THEN /\ ui'.attempts = ui.attempts
                    /\ ui'.session_state = ui.session_state
               ELSE /\ Len(ui'.attempts) = Len(ui.attempts) + 1
                    /\ last.file = ui.uploaded[1]
                    /\ IF last.outcome = "sent"
                       THEN ui'.session_state = ui.session_state
                                \cup {FileId(last.file)}
                       ELSE ui'.session_state = ui.session_state]_vars

\* C19 witness: a file whose first try raised was tried again at the next
\* script run and sent, and a third script run with the file still in the
\* uploader found it marked
C19_Witness ==
    /\ ui.reruns = 3 /\ ui.uploaded # <<>>
    /\ Len(ui.attempts) = 2
    /\ ui.attempts[1].file = ui.uploaded[1] /\ ui.attempts[1].outcome # "sent"
    /\ ui.attempts[2].file = ui.uploaded[1] /\ ui.attempts[2].outcome = "sent"
    /\ Cardinality(IngestSent) = 1

====
